---- MODULE Spec2Model ----
(***************************************************************************)
(* State-machine model of the chat front ends of the product assistant:    *)
(*   - the product detail page   (frontend/src/pages/ProductDetailPage.jsx *)
(*                                with frontend/src/services/api.js),      *)
(*   - the product chat widget   (frontend/components/chat/*.jsx with      *)
(*                                frontend/lib/chatApi.js),                *)
(*   - the legacy single-page App (unnamed/part_002 with ImageUpload.jsx). *)
(* One browser tab runs exactly one of the three (variable client).        *)
(* The backend (/chat, /history) is not part of the sources; its store is  *)
(* modelled from the specification's Conversation Store contract, and its  *)
(* catalog lookup, retrieval and prompt assembly from sections 4.3 to 4.5  *)
(* with backend/PINECONE_USAGE.md. The auth callback route handler         *)
(* (unnamed/part_005) is modelled as a server-side request handler.        *)
(***************************************************************************)
EXTENDS Integers, Sequences, FiniteSets, TLC

\* ------------------------------------------------------------------ bounds
MaxLoads == 2        \* page loads (first visit and reloads) per behaviour
MaxSends == 2        \* send attempts that the handler accepts
MaxSelects == 1      \* file selections in the chat specification
MaxFileSelects == 2  \* file selections in the attachment specification
MaxIds == 3          \* session identifiers that can be generated
MaxModes == 2        \* presses of a mode button
MaxCalls == 2        \* direct calls of the request builders
MaxLegacySends == 1  \* sends in the legacy App's mode and reset specification

\* ------------------------------------------------------- program constants
MAX_IMAGES == 3
MaxFileBytes == 5242880     \* 5 * 1024 * 1024
MaxRoomBytes == 10485760    \* 10 * 1024 * 1024 (ImageUpload.processFile)

Products == {"A", "B"}
Clients == {"page", "widget", "app"}
NoProduct == "none"
NoId == 0                   \* null / '' / missing localStorage entry (falsy)
Ids == 1..MaxIds

PRE_PURCHASE == "PRE_PURCHASE"
POST_PURCHASE == "POST_PURCHASE"

\* texts the user can have in the input box: nothing, whitespace only, or
\* the next question (the n-th send of a behaviour asks "q<n>")
Question(n) == CASE n = 1 -> "q1" [] n = 2 -> "q2" [] n = 3 -> "q3" [] OTHER -> "q"
Texts(n) == {"", " ", Question(n + 1)}
\* String.prototype.trim on the texts above
Trim(t) == IF t = " " THEN "" ELSE t

\* the apology of handleSendMessage's catch branch (the source text opens with
\* a cross-mark glyph, left out here; it is part of the same content string)
PageApology == "Sorry, I encountered an error. Please try again."
\* what the provider can answer: any text, the apology's wording included
ReplyTexts == {"answer", PageApology}

\* files the user can pick: name -> type and size in bytes
FileNames == {"a.png", "b.png", "notes.txt", "huge.png", "giant.png"}
FileType(f) == IF f = "notes.txt" THEN "text/plain" ELSE "image/png"
FileSize(f) == CASE f = "huge.png" -> MaxFileBytes + 1
                 [] f = "giant.png" -> MaxRoomBytes + 1
                 [] OTHER -> 1024
IsImageType(f) == FileType(f) = "image/png"     \* type.startsWith('image/')
DataUrl(f) == [dataUrlOf |-> f]                 \* FileReader.readAsDataURL

VARIABLES
    client,            \* which front end runs in this tab
    storage,           \* "ok" | "throws": behaviour of window.localStorage
    ls,                \* localStorage: key -> stored session id (NoId: absent)
    nextId,            \* identifiers generated so far
    store,             \* backend Conversation Store: session id -> turns
    appended,          \* ghost: per product, turns appended for its sends
    open,              \* a page of the client is mounted
    crashed,           \* an effect threw: React unmounted the tree
    modelId,           \* useParams().modelId
    loading, error, productData,
    sessionId, messages, origin, inputMessage, isSending, isLoadingHistory,
    mode, selectedImages, imagePreviews, uploadError,
    previewJobs,       \* Promise.all(...) of handleImageSelect not yet resolved
    chatReqs,          \* /chat requests in flight
    histReqs,          \* /history requests in flight
    prodReqs,          \* /model requests in flight
    isLoading,         \* widget / legacy App: a request is awaited
    selectedImage,     \* widget ChatInput: the attached file, or "null"
    showImageUpload, roomAnalysis, suggestions,     \* legacy App
    roomReqs,          \* /analyze-room requests in flight
    nLoads, nSends, nSelects,
    resolved,          \* ghost: per product, the last session id resolved
    lastTry,           \* ghost: what the last Send / Enter press met
    histDone,          \* ghost: outcome of this page load's history fetch
    histGhost,         \* ghost: turns appended when that fetch was answered
    modeReqs,          \* /mode requests in flight
    chosen,            \* ghost: the mode selected last in this page view
    nModes,            \* mode buttons pressed so far
    lastProd,          \* ghost: outcome of the last settled product fetch
    lastReject,        \* ghost: reason the last file selection set, if any
    asm,               \* backend: the chat turn being handled by POST /chat
    docIndex,          \* backend: the document index (chunks by namespace)
    auth,              \* auth callback route: the request being handled
    resetReqs,         \* /reset requests in flight (legacy App)
    agentMode          \* backend: the mode POST /mode set last

envVars == <<client, storage, ls, nextId, store, appended>>
pageVars == <<open, crashed, modelId, loading, error, productData, sessionId,
              messages, origin, inputMessage, isSending, isLoadingHistory,
              mode, selectedImages, imagePreviews, uploadError, previewJobs>>
netVars == <<chatReqs, histReqs, prodReqs>>
otherVars == <<isLoading, selectedImage, showImageUpload, roomAnalysis,
               suggestions, roomReqs>>
ghostVars == <<nLoads, nSends, nSelects, resolved, lastTry, histDone, histGhost>>
modeVars == <<modeReqs, chosen, nModes>>
backVars == <<asm, docIndex, auth, resetReqs>>
moreVars == <<modeVars, lastProd, lastReject, backVars, agentMode>>
vars == <<envVars, pageVars, netVars, otherVars, ghostVars, moreVars>>

\* ------------------------------------------------------------ localStorage
\* `session_${modelId}` (page) / `chat_session_${productId}` (widget)
\* mutant: one key for every product
PageKeyShared(p) == <<"session_", "A">>
PageKey(p) == <<"session_", p>>
WidgetKey(p) == <<"chat_session_", p>>
Keys == {PageKey(p) : p \in Products} \cup {WidgetKey(p) : p \in Products}

\* the record the catalog lookup yields for an unknown model (None)
NoRecord == [model |-> NoProduct, issues |-> {}]
NoRequest == [directives |-> <<>>, grounding |-> NoRecord, knowledge |-> <<>>,
              history |-> <<>>, user |-> ""]
\* POST /chat is handling no turn
Idle == [stage |-> "idle", mode |-> PRE_PURCHASE, model_id |-> NoProduct,
         message |-> "", history |-> <<>>, record |-> NoRecord,
         snippets |-> <<>>, request |-> NoRequest]

\* searchParams.get() of a parameter the URL does not have (null)
NoParam == "(absent)"
NoResponse == [kind |-> "none", to |-> "", error |-> NoParam]
\* the auth callback route is handling no request
NoCallback == [stage |-> "idle", code |-> NoParam, error |-> NoParam,
               error_code |-> NoParam, error_description |-> NoParam,
               exchange |-> "none", response |-> NoResponse]

NoTry == [pressed |-> FALSE, busy |-> FALSE, empty |-> FALSE]

Init ==
    /\ client \in Clients
    /\ storage \in IF client = "app" THEN {"ok"} ELSE {"ok", "throws"}
    /\ ls = [k \in Keys |-> NoId]
    /\ nextId = 0
    /\ store = [i \in Ids |-> <<>>]
    /\ appended = [p \in Products |-> <<>>]
    /\ open = FALSE
    /\ crashed = FALSE
    /\ modelId = NoProduct
    /\ loading = TRUE
    /\ error = "null"
    /\ productData = "null"
    /\ sessionId = NoId
    /\ messages = <<>>
    /\ origin = <<>>
    /\ inputMessage = ""
    /\ isSending = FALSE
    /\ isLoadingHistory = TRUE
    /\ mode = PRE_PURCHASE
    /\ selectedImages = <<>>
    /\ imagePreviews = <<>>
    /\ uploadError = "null"
    /\ previewJobs = {}
    /\ chatReqs = {}
    /\ histReqs = {}
    /\ prodReqs = {}
    /\ nLoads = 0
    /\ nSends = 0
    /\ nSelects = 0
    /\ isLoading = FALSE
    /\ selectedImage = "null"
    /\ showImageUpload = FALSE
    /\ roomAnalysis = "null"
    /\ suggestions = <<>>
    /\ roomReqs = {}
    /\ resolved = [p \in Products |-> NoId]
    /\ lastTry = NoTry
    /\ histDone = "pending"
    /\ histGhost = <<>>
    /\ modeReqs = {}
    /\ chosen = PRE_PURCHASE
    /\ nModes = 0
    /\ lastProd = "none"
    /\ lastReject = "null"
    /\ asm = Idle
    /\ docIndex = {}
    /\ auth = NoCallback
    /\ resetReqs = {}
    /\ agentMode = PRE_PURCHASE

\* ------------------------------------------------------ session resolution
\* mutant: the write is lost
SetItemLost(key, sid) == ls
\* localStorage.setItem(key, sid)
SetItem(key, sid) == [ls EXCEPT ![key] = sid]

\* crypto.randomUUID(): an identifier never issued before (collisions of
\* 122 random bits are outside the model)
RandomUUID == nextId + 1

\* mutant: a new identifier on every resolution
ResolvedIdAlwaysNew(key) == RandomUUID
\* the identifier the session effect ends with for product p (storage works)
ResolvedId(key) == IF ls[key] = NoId THEN RandomUUID ELSE ls[key]

\* ------------------------------------------------------------- api.js
\* mutant: one field name on both branches
SendMessageOneField(id, message, p, m, imageFiles, sid) ==
    [id |-> id, message |-> message, model_id |-> p, mode |-> m,
     images |-> imageFiles, sid |-> sid,
     field |-> IF sid = NoId THEN "none" ELSE "conversation_id",
     stage |-> "sent", reply |-> ""]
\* api.sendMessage: the form fields of the /chat request
SendMessage(id, message, p, m, imageFiles, sid) ==
    [id |-> id, message |-> message, model_id |-> p, mode |-> m,
     images |-> imageFiles, sid |-> sid,
     field |-> IF sid = NoId THEN "none"
               ELSE IF Len(imageFiles) > 0 THEN "session_id"
               ELSE "conversation_id",
     stage |-> "sent", reply |-> ""]

\* user-turn caption of an image-only send: `📷 [${n} image(s)]`
ImageCaption(n) ==
    CASE n = 1 -> "[1 image(s)]"
      [] n = 2 -> "[2 image(s)]"
      [] n = 3 -> "[3 image(s)]"
      [] OTHER -> "[more image(s)]"

UserTurn(text, previews) ==
    [role |-> "user", content |-> text, imagePreviews |-> previews]
AssistantTurn(text) == [role |-> "assistant", content |-> text]
\* the turn handleSendMessage records in its catch branch
FailureTurn == [role |-> "assistant", content |-> PageApology]

\* ------------------------------------------------------------- backend
\* the session a /chat request is appended to: the backend's form parameter
\* is conversation_id; whether it also reads session_id is not known
\* (readsSessionId: it does, for this request)
BackendSession(r, readsSessionId) ==
    IF r.field = "conversation_id" \/ (r.field = "session_id" /\ readsSessionId)
    THEN r.sid ELSE NoId

StoredTurns(r, reply) ==
    << [role |-> "user", content |-> r.message],
       [role |-> "assistant", content |-> reply] >>

\* appendTurn: append-only, per session
AppendTurns(sid, turns) ==
    IF sid = NoId THEN store ELSE [store EXCEPT ![sid] = @ \o turns]

\* ------------------------------------------------------------- the page
ChatVisible ==
    /\ client = "page" /\ open /\ ~crashed
    /\ ~loading /\ error = "null" /\ productData # "null"

\* err.message of the TypeError a rejected fetch() throws
RawTransportError == "Failed to fetch"

\* api.getProduct rejecting: err.message for a non-OK status (404 and 500
\* alike) and for a fetch that itself rejects
GetProductError(stage) ==
    IF stage = "unreachable" THEN RawTransportError
    ELSE "Failed to fetch product"

\* what the page renders: the loading placeholder, the error placeholder
\* with its Try Again button, nothing, or the product with its chat
View ==
    CASE loading -> [kind |-> "loading", text |-> "", tryAgain |-> FALSE]
      [] ~loading /\ error # "null" ->
            [kind |-> "error", text |-> error, tryAgain |-> TRUE]
      [] ~loading /\ error = "null" /\ productData = "null" ->
            [kind |-> "blank", text |-> "", tryAgain |-> FALSE]
      [] OTHER -> [kind |-> "product", text |-> "", tryAgain |-> FALSE]

\* mount of /product/:modelId (first visit or reload): fresh component
\* state, then both mount effects (fetchProductData, session init)
LoadPage(p) ==
    /\ client = "page"
    /\ nLoads < MaxLoads
    /\ storage = "ok" /\ ls[PageKey(p)] = NoId => nextId < MaxIds
    /\ nLoads' = nLoads + 1
    /\ open' = TRUE
    /\ modelId' = p
    /\ loading' = TRUE /\ error' = "null" /\ productData' = "null"
    /\ messages' = <<>> /\ origin' = <<>> /\ inputMessage' = ""
    /\ isSending' = FALSE /\ mode' = PRE_PURCHASE
    /\ selectedImages' = <<>> /\ imagePreviews' = <<>> /\ uploadError' = "null"
    /\ previewJobs' = {}
    /\ isLoadingHistory' = TRUE
    /\ prodReqs' = {[model_id |-> p, stage |-> "sent"]}
    /\ chatReqs' = {}              \* the unloading page aborts its fetches
    /\ lastTry' = NoTry /\ histDone' = "pending"
    /\ IF storage = "throws"
       THEN \* localStorage.getItem throws inside the effect
            /\ crashed' = TRUE
            /\ sessionId' = NoId
            /\ histReqs' = {}
            /\ UNCHANGED <<ls, nextId>>
       ELSE LET key == PageKey(p)
                sid == ResolvedId(key)
            IN /\ crashed' = FALSE
               /\ ls' = IF ls[key] = NoId THEN SetItem(key, sid) ELSE ls
               /\ nextId' = IF ls[key] = NoId THEN nextId + 1 ELSE nextId
               /\ sessionId' = sid
               /\ histReqs' = {[sid |-> sid, stage |-> "sent", messages |-> <<>>,
                                ghost |-> <<>>]}
    /\ resolved' = IF storage = "throws" THEN resolved
                    ELSE [resolved EXCEPT ![p] = sessionId']
    /\ histGhost' = <<>>
    /\ UNCHANGED <<otherVars, client, storage, store, appended,
                   nSends, nSelects>>
    /\ modeReqs' = {}             \* so it does its POST /mode
    /\ chosen' = PRE_PURCHASE
    /\ lastProd' = "none" /\ lastReject' = "null"
    /\ UNCHANGED <<nModes, backVars, agentMode>>

\* GET /model/:id answers
ServerProduct(r, outcome) ==
    /\ r \in prodReqs /\ r.stage = "sent"
    /\ prodReqs' = (prodReqs \ {r}) \cup {[r EXCEPT !.stage = outcome]}
    /\ UNCHANGED <<otherVars, envVars, pageVars, chatReqs, histReqs, ghostVars>>
    /\ UNCHANGED moreVars

\* fetchProductData after its await
ProductSettles(r) ==
    /\ r \in prodReqs /\ r.stage # "sent"
    /\ client = "page" /\ open /\ ~crashed
    /\ prodReqs' = prodReqs \ {r}
    /\ IF r.stage = "ok"
       THEN productData' = r.model_id /\ error' = "null"
       ELSE /\ error' = GetProductError(r.stage)
            /\ UNCHANGED productData
    /\ loading' = FALSE
    /\ UNCHANGED <<otherVars, envVars, open, crashed, modelId, sessionId, messages, origin,
                   inputMessage, isSending, isLoadingHistory, mode,
                   selectedImages, imagePreviews, uploadError, previewJobs,
                   chatReqs, histReqs, ghostVars>>
    /\ lastProd' = r.stage
    /\ UNCHANGED <<modeVars, lastReject, backVars, agentMode>>

\* the Try Again button of the error view
TryAgain ==
    /\ client = "page" /\ open /\ ~crashed /\ ~loading /\ error # "null"
    /\ loading' = TRUE
    /\ prodReqs' = prodReqs \cup {[model_id |-> modelId, stage |-> "sent"]}
    /\ UNCHANGED <<otherVars, envVars, open, crashed, modelId, error, productData,
                   sessionId, messages, origin, inputMessage, isSending,
                   isLoadingHistory, mode, selectedImages, imagePreviews,
                   uploadError, previewJobs, chatReqs, histReqs, ghostVars>>
    /\ UNCHANGED moreVars

\* GET /history/:sid answers: the stored turns, a non-OK status, or nothing
ServerHistory(h, outcome) ==
    /\ h \in histReqs /\ h.stage = "sent"
    /\ histReqs' = (histReqs \ {h}) \cup
         {[h EXCEPT !.stage = outcome,
                    !.messages = IF outcome = "ok" THEN store[h.sid] ELSE <<>>,
                    !.ghost = appended[modelId]]}
    /\ UNCHANGED <<otherVars, envVars, pageVars, chatReqs, prodReqs, ghostVars>>
    /\ UNCHANGED moreVars

\* mutant: the response.ok test inverted, an OK answer is read as no history
GetConversationHistoryInverted(h) ==
    [threw |-> h.stage \notin {"ok", "nonok"}, messages |-> <<>>]
\* api.getConversationHistory: what the awaited call gives the page;
\* "throws" when fetch itself rejects
GetConversationHistory(h) ==
    CASE h.stage = "ok" -> [threw |-> FALSE, messages |-> h.messages]
      [] h.stage = "nonok" -> [threw |-> FALSE, messages |-> <<>>]
      [] OTHER -> [threw |-> TRUE, messages |-> <<>>]

\* mutant: the fetched list replaces the conversation even when it is empty
HistoryAppliedAlways(history) == history.messages
\* messages after loadConversationHistory's try block
HistoryApplied(history) ==
    IF ~history.threw /\ Len(history.messages) > 0
    THEN history.messages ELSE messages

\* loadConversationHistory after its await
HistorySettles(h) ==
    /\ h \in histReqs /\ h.stage # "sent"
    /\ client = "page" /\ open /\ ~crashed
    /\ histReqs' = histReqs \ {h}
    /\ LET history == GetConversationHistory(h)
       IN /\ messages' = HistoryApplied(history)
          /\ origin' = IF messages' = messages THEN origin
                       ELSE [i \in 1..Len(messages') |-> "history"]
    /\ isLoadingHistory' = FALSE
    /\ histDone' = h.stage
    /\ histGhost' = h.ghost
    /\ UNCHANGED <<otherVars, envVars, open, crashed, modelId, loading, error, productData,
                   sessionId, inputMessage, isSending, mode, selectedImages,
                   imagePreviews, uploadError, previewJobs, chatReqs, prodReqs,
                   nLoads, nSends, nSelects, resolved, lastTry>>
    /\ UNCHANGED moreVars

\* the text input's onChange
TypeMessage(t) ==
    /\ ChatVisible
    /\ t # inputMessage
    /\ inputMessage' = t
    /\ UNCHANGED <<otherVars, envVars, open, crashed, modelId, loading, error, productData,
                   sessionId, messages, origin, isSending, isLoadingHistory,
                   mode, selectedImages, imagePreviews, uploadError,
                   previewJobs, netVars, ghostVars>>
    /\ UNCHANGED moreVars

\* mutant: the isSending guard is missing
SendRejectedEmptyOnly == Trim(inputMessage) = "" /\ Len(selectedImages) = 0
\* mutant: the guard looks at the text alone
SendRejectedTextOnly == Trim(inputMessage) = "" \/ isSending
\* the early return of handleSendMessage
SendRejected ==
    \/ Trim(inputMessage) = "" /\ Len(selectedImages) = 0
    \/ isSending

\* handleSendMessage up to its await (Send button, or Enter in the input,
\* which is not disabled while a request is in flight)
HandleSendMessage ==
    /\ ChatVisible
    /\ lastTry' = [pressed |-> TRUE, busy |-> isSending,
                   empty |-> Trim(inputMessage) = "" /\ Len(selectedImages) = 0]
    /\ IF SendRejected
       THEN UNCHANGED <<inputMessage, selectedImages, imagePreviews, uploadError,
                        messages, origin, isSending, chatReqs, nSends>>
       ELSE LET userMessage == Trim(inputMessage)
                imagesToSend == selectedImages
            IN /\ nSends < MaxSends
               /\ nSends' = nSends + 1
               /\ inputMessage' = ""
               /\ selectedImages' = <<>>
               /\ imagePreviews' = <<>>
               /\ uploadError' = "null"
               /\ messages' = Append(messages,
                     UserTurn(IF userMessage # "" THEN userMessage
                              ELSE ImageCaption(Len(imagesToSend)),
                              imagePreviews))
               /\ origin' = Append(origin, "user")
               /\ isSending' = TRUE
               /\ chatReqs' = chatReqs \cup
                     {SendMessage(nSends + 1, userMessage, modelId, mode,
                                  imagesToSend, sessionId)}
    /\ UNCHANGED <<otherVars, envVars, open, crashed, modelId, loading, error, productData,
                   sessionId, isLoadingHistory, mode, previewJobs, histReqs,
                   prodReqs, nLoads, nSelects, resolved, histDone, histGhost>>
    /\ lastReject' = "null"
    /\ UNCHANGED <<modeVars, lastProd, backVars, agentMode>>

\* POST /chat is processed: on success both turns are appended to the
\* request's session, on failure nothing is
ServerChat(r, ok, reply, readsSessionId) ==
    /\ r \in chatReqs /\ r.stage = "sent"
    /\ IF ok
       THEN /\ chatReqs' = (chatReqs \ {r}) \cup
                 {[r EXCEPT !.stage = "ok", !.reply = reply]}
            /\ store' = AppendTurns(BackendSession(r, readsSessionId), StoredTurns(r, reply))
            /\ appended' = IF BackendSession(r, readsSessionId) = NoId THEN appended
                           ELSE [appended EXCEPT ![r.model_id] =
                                     @ \o StoredTurns(r, reply)]
       ELSE /\ chatReqs' = (chatReqs \ {r}) \cup {[r EXCEPT !.stage = "fail"]}
            /\ UNCHANGED <<store, appended>>
    /\ UNCHANGED <<otherVars, client, storage, ls, nextId, pageVars,
                   histReqs, prodReqs, ghostVars>>
    /\ UNCHANGED moreVars

\* the turn handleSendMessage appends once its request has settled
SettledTurn(r) == IF r.stage = "ok" THEN AssistantTurn(r.reply) ELSE FailureTurn

\* handleSendMessage after its await: try / catch / finally
ChatSettles(r) ==
    /\ r \in chatReqs /\ r.stage # "sent"
    /\ client = "page" /\ open /\ ~crashed
    /\ chatReqs' = chatReqs \ {r}
    /\ messages' = Append(messages, SettledTurn(r))
    /\ origin' = Append(origin, IF r.stage = "ok" THEN "reply" ELSE "failure")
    /\ isSending' = FALSE
    /\ UNCHANGED <<otherVars, envVars, open, crashed, modelId, loading, error, productData,
                   sessionId, inputMessage, isLoadingHistory, mode,
                   selectedImages, imagePreviews, uploadError, previewJobs,
                   histReqs, prodReqs, ghostVars>>
    /\ UNCHANGED moreVars

\* ------------------------------------------------------ image attachments
MaxPick == 2         \* files chosen in one file-picker selection
FilePicks == UNION {[1..n -> FileNames] : n \in 1..MaxPick}

\* mutant: the size check is missing
FileValidTypeOnly(f) == IsImageType(f)
\* the two checks of handleImageSelect's loop
FileValid(f) == IsImageType(f) /\ FileSize(f) <= MaxFileBytes
FileError(f) ==
    IF ~IsImageType(f) THEN "Only images are allowed (PNG, JPG, JPEG, WEBP)"
    ELSE "Each file must be less than 5MB"

\* handleImageSelect up to Promise.all(...): slot limit, validation loop
HandleImageSelect(files) ==
    /\ ChatVisible
    /\ ~isSending                      \* the camera button is disabled
    /\ nSelects < MaxFileSelects
    /\ nSelects' = nSelects + 1
    /\ LET remainingSlots == MAX_IMAGES - Len(selectedImages)
           filesToAdd == SubSeq(files, 1,
                                IF Len(files) < remainingSlots THEN Len(files)
                                ELSE remainingSlots)
           validFiles == SelectSeq(filesToAdd, FileValid)
           rejected == SelectSeq(filesToAdd, LAMBDA f : ~FileValid(f))
       IN IF remainingSlots <= 0
          THEN /\ uploadError' = "Maximum 3 images allowed"
               /\ UNCHANGED previewJobs
          ELSE /\ uploadError' = IF rejected = <<>> THEN uploadError
                                 ELSE FileError(rejected[Len(rejected)])
               /\ previewJobs' = previewJobs \cup
                     {[id |-> nSelects + 1, files |-> validFiles]}
    /\ UNCHANGED <<otherVars, envVars, open, crashed, modelId, loading, error, productData,
                   sessionId, messages, origin, inputMessage, isSending,
                   isLoadingHistory, mode, selectedImages, imagePreviews,
                   netVars, nLoads, nSends, resolved, lastTry, histDone,
                   histGhost>>
    /\ lastReject' = IF \E i \in 1..Len(files) :
                            i <= MAX_IMAGES - Len(selectedImages)
                              /\ ~FileValid(files[i])
                      THEN uploadError' ELSE "null"
    /\ UNCHANGED <<modeVars, lastProd, backVars, agentMode>>

\* mutant: the files are added, their previews are not
PreviewsReadyFilesOnly(j) ==
    /\ j \in previewJobs
    /\ client = "page" /\ open /\ ~crashed
    /\ previewJobs' = previewJobs \ {j}
    /\ selectedImages' = selectedImages \o j.files
    /\ uploadError' = "null"
    /\ UNCHANGED <<otherVars, envVars, open, crashed, modelId, loading, error, productData,
                   sessionId, messages, origin, inputMessage, isSending,
                   isLoadingHistory, mode, imagePreviews, netVars, ghostVars>>
    /\ UNCHANGED moreVars
\* the .then(previews => ...) of handleImageSelect
PreviewsReady(j) ==
    /\ j \in previewJobs
    /\ client = "page" /\ open /\ ~crashed
    /\ previewJobs' = previewJobs \ {j}
    /\ selectedImages' = selectedImages \o j.files
    /\ imagePreviews' = imagePreviews \o [i \in 1..Len(j.files) |-> DataUrl(j.files[i])]
    /\ uploadError' = "null"
    /\ UNCHANGED <<otherVars, envVars, open, crashed, modelId, loading, error, productData,
                   sessionId, messages, origin, inputMessage, isSending,
                   isLoadingHistory, mode, netVars, ghostVars>>
    /\ UNCHANGED moreVars

\* prev.filter((_, i) => i !== index)
RemoveAt(seq, index) ==
    [i \in 1..(Len(seq) - 1) |-> IF i < index THEN seq[i] ELSE seq[i + 1]]

\* handleRemoveImage(index): the X button of a preview
HandleRemoveImage(index) ==
    /\ ChatVisible
    /\ index \in 1..Len(imagePreviews)
    /\ selectedImages' = IF index \in 1..Len(selectedImages)
                         THEN RemoveAt(selectedImages, index) ELSE selectedImages
    /\ imagePreviews' = RemoveAt(imagePreviews, index)
    /\ uploadError' = "null"
    /\ UNCHANGED <<otherVars, envVars, open, crashed, modelId, loading, error, productData,
                   sessionId, messages, origin, inputMessage, isSending,
                   isLoadingHistory, mode, previewJobs, netVars, ghostVars>>
    /\ lastReject' = "null"
    /\ UNCHANGED <<modeVars, lastProd, backVars, agentMode>>

\* ------------------------------------------------------------ mode switch
Modes == {PRE_PURCHASE, POST_PURCHASE}

\* api.switchMode(mode): the body of the POST /mode request
SwitchMode(id, m) == [id |-> id, mode |-> m, stage |-> "sent"]

\* POST /mode is processed: the backend's mode becomes the requested one,
\* or the request fails and nothing changes
ServerMode(r, ok) ==
    /\ r \in modeReqs /\ r.stage = "sent"
    /\ modeReqs' = (modeReqs \ {r}) \cup
          {[r EXCEPT !.stage = IF ok THEN "ok" ELSE "fail"]}
    /\ agentMode' = IF ok THEN r.mode ELSE agentMode
    /\ UNCHANGED <<envVars, pageVars, netVars, otherVars, ghostVars,
                   chosen, nModes, lastProd, lastReject, backVars>>

\* mutant: the tab pressed is not taken over into the state
ModeAfterSwitchKept(newMode) == mode
\* handleModeSwitch: the mode state after the press
ModeAfterSwitch(newMode) == newMode

\* handleModeSwitch(newMode) up to its await: a press on a mode tab
HandleModeSwitch(newMode) ==
    /\ ChatVisible
    /\ nModes < MaxModes
    /\ nModes' = nModes + 1
    /\ chosen' = newMode
    /\ IF newMode = mode
       THEN UNCHANGED <<mode, modeReqs>>
       ELSE /\ mode' = ModeAfterSwitch(newMode)
            /\ modeReqs' = modeReqs \cup {SwitchMode(nModes + 1, newMode)}
    /\ UNCHANGED <<otherVars, envVars, open, crashed, modelId, loading, error,
                   productData, sessionId, messages, origin, inputMessage,
                   isSending, isLoadingHistory, selectedImages, imagePreviews,
                   uploadError, previewJobs, netVars, ghostVars,
                   lastProd, lastReject, backVars, agentMode>>

\* handleModeSwitch after its await: a failure is logged to the console,
\* the state is left as the press set it
ModeSettles(r) ==
    /\ r \in modeReqs /\ r.stage # "sent"
    /\ client = "page" /\ open /\ ~crashed
    /\ modeReqs' = modeReqs \ {r}
    /\ UNCHANGED <<envVars, pageVars, netVars, otherVars, ghostVars,
                   chosen, nModes, lastProd, lastReject, backVars, agentMode>>

\* ------------------------------------------- chatApi.js and the chat widget
\* generateSessionId(): `session_${Date.now()}_${random}`, an identifier not
\* issued before
GenerateSessionId == nextId + 1

\* randomness of a generated identifier, in bits. crypto.randomUUID() gives
\* a version-4 UUID: 128 bits of which the version (4) and the variant (2)
\* are fixed
UuidBits == 128 - 4 - 2
\* Math.random().toString(36).substr(2, 9): at most 9 digits of radix 36;
\* Date.now() is the clock, not a random value
RandomRadix == 36
RandomDigits == 9
RECURSIVE CeilLog2(_)
\* the least b with 2^b >= n
CeilLog2(n) == IF n <= 1 THEN 0 ELSE 1 + CeilLog2((n + 1) \div 2)
\* an upper bound: the digits taken as independent and equally likely
GeneratedIdBits == RandomDigits * CeilLog2(RandomRadix)

\* getSessionId(productId) where window is defined: the identifier returned
GetSessionId(key) == IF ls[key] = NoId THEN GenerateSessionId ELSE ls[key]

\* sendChatMessage: the form fields of the widget's /chat request
SendChatMessage(id, p, message, sid, m, images) ==
    [id |-> id, message |-> message, model_id |-> p, mode |-> m,
     images |-> images, sid |-> sid, field |-> "conversation_id",
     stage |-> "sent", reply |-> ""]

WidgetWelcome == [text |-> "chat.welcome", isUser |-> FALSE]
WidgetError == "chat.error"
Bubble(text, isUser) == [text |-> text, isUser |-> isUser]

WidgetUp == client = "widget" /\ open /\ ~crashed

\* mount of ProductChatWidget for product p: mounted effect, session effect
\* (getSessionId), welcome effect
MountWidget(p) ==
    /\ client = "widget"
    /\ nLoads < MaxLoads
    /\ storage = "ok" /\ ls[WidgetKey(p)] = NoId => nextId < MaxIds
    /\ nLoads' = nLoads + 1
    /\ open' = TRUE
    /\ modelId' = p
    /\ inputMessage' = "" /\ selectedImage' = "null"
    /\ isLoading' = FALSE /\ mode' = PRE_PURCHASE
    /\ origin' = <<>>
    /\ chatReqs' = {}
    /\ lastTry' = NoTry
    /\ IF storage = "throws"
       THEN \* localStorage.getItem throws inside the effect
            /\ crashed' = TRUE
            /\ sessionId' = NoId
            /\ messages' = <<>>
            /\ UNCHANGED <<ls, nextId, resolved>>
       ELSE LET key == WidgetKey(p)
                sid == GetSessionId(key)
            IN /\ crashed' = FALSE
               /\ ls' = IF ls[key] = NoId THEN SetItem(key, sid) ELSE ls
               /\ nextId' = IF ls[key] = NoId THEN nextId + 1 ELSE nextId
               /\ sessionId' = sid
               /\ messages' = <<WidgetWelcome>>
               /\ resolved' = [resolved EXCEPT ![p] = sid]
    /\ UNCHANGED <<client, storage, store, appended, loading,
                   error, productData, isSending, isLoadingHistory, selectedImages,
                   imagePreviews, uploadError, previewJobs, histReqs, prodReqs,
                   showImageUpload, roomAnalysis, suggestions, roomReqs,
                   nSends, nSelects, histDone, histGhost>>
    /\ chosen' = PRE_PURCHASE
    /\ UNCHANGED <<modeReqs, nModes, lastProd, lastReject, backVars, agentMode>>

\* ChatInput: the textarea's onChange (the textarea is disabled while loading)
WidgetType(t) ==
    /\ WidgetUp /\ ~isLoading
    /\ t # inputMessage
    /\ inputMessage' = t
    /\ UNCHANGED <<envVars, open, crashed, modelId, loading, error, productData,
                   sessionId, messages, origin, isSending, isLoadingHistory,
                   mode, selectedImages, imagePreviews, uploadError,
                   previewJobs, netVars, otherVars, ghostVars>>
    /\ UNCHANGED moreVars

\* ChatInput.handleImageSelect (the image button is disabled while loading)
WidgetSelectImage(f) ==
    /\ WidgetUp /\ ~isLoading
    /\ nSelects < MaxFileSelects
    /\ nSelects' = nSelects + 1
    /\ selectedImage' = IF IsImageType(f) THEN f ELSE selectedImage
    /\ UNCHANGED <<envVars, pageVars, netVars, isLoading, showImageUpload,
                   roomAnalysis, suggestions, roomReqs, nLoads, nSends,
                   resolved, lastTry, histDone, histGhost>>
    /\ UNCHANGED moreVars

\* ChatInput.handleSubmit calling the widget's handleSendMessage up to its
\* await; the form can be submitted only while the input is enabled
WidgetSubmit ==
    /\ WidgetUp /\ ~isLoading
    /\ lastTry' = [pressed |-> TRUE, busy |-> isLoading,
                   empty |-> Trim(inputMessage) = "" /\ selectedImage = "null"]
    /\ IF Trim(inputMessage) = "" /\ selectedImage = "null"
       THEN UNCHANGED <<inputMessage, selectedImage, messages, origin,
                        isLoading, chatReqs, nSends>>
       ELSE /\ nSends < MaxSends
            /\ nSends' = nSends + 1
            /\ inputMessage' = ""
            /\ selectedImage' = "null"
            /\ messages' = Append(messages, Bubble(Trim(inputMessage), TRUE))
            /\ origin' = Append(origin, "user")
            /\ isLoading' = TRUE
            /\ chatReqs' = chatReqs \cup
                  {SendChatMessage(nSends + 1, modelId, Trim(inputMessage),
                                   sessionId, mode,
                                   IF selectedImage = "null" THEN <<>>
                                   ELSE <<selectedImage>>)}
    /\ UNCHANGED <<envVars, open, crashed, modelId, loading, error, productData,
                   sessionId, isSending, isLoadingHistory, mode, selectedImages,
                   imagePreviews, uploadError, previewJobs, histReqs, prodReqs,
                   showImageUpload, roomAnalysis, suggestions, roomReqs,
                   nLoads, nSelects, resolved, histDone, histGhost>>
    /\ UNCHANGED moreVars

\* the widget's handleSendMessage after its await
WidgetChatSettles(r) ==
    /\ r \in chatReqs /\ r.stage # "sent"
    /\ WidgetUp
    /\ chatReqs' = chatReqs \ {r}
    /\ messages' = Append(messages,
                          Bubble(IF r.stage = "ok" THEN r.reply ELSE WidgetError,
                                 FALSE))
    /\ origin' = Append(origin, IF r.stage = "ok" THEN "reply" ELSE "failure")
    /\ isLoading' = FALSE
    /\ UNCHANGED <<envVars, open, crashed, modelId, loading, error, productData,
                   sessionId, inputMessage, isSending, isLoadingHistory, mode,
                   selectedImages, imagePreviews, uploadError, previewJobs,
                   histReqs, prodReqs, selectedImage, showImageUpload,
                   roomAnalysis, suggestions, roomReqs, ghostVars>>
    /\ UNCHANGED moreVars

\* the Shopping / Support buttons of the widget: setMode(m)
WidgetSetMode(m) ==
    /\ WidgetUp
    /\ nModes < MaxModes
    /\ nModes' = nModes + 1
    /\ chosen' = m
    /\ mode' = m
    /\ UNCHANGED <<envVars, open, crashed, modelId, loading, error, productData,
                   sessionId, messages, origin, inputMessage, isSending,
                   isLoadingHistory, selectedImages, imagePreviews, uploadError,
                   previewJobs, netVars, otherVars, ghostVars,
                   modeReqs, lastProd, lastReject, backVars, agentMode>>

\* ------------------------------------- legacy single-page App, ImageUpload
AppGreeting(m) == [text |-> IF m = PRE_PURCHASE THEN "greeting.pre"
                            ELSE "greeting.post", isUser |-> FALSE]
AppApology ==
    "Sorry, I encountered an error. Please make sure the backend is running and try again."

AppUp == client = "app" /\ open

\* axios.post(`${API_BASE}/chat`, {message, conversation_id: 'default'})
AppChatRequest(id, message) ==
    [id |-> id, message |-> message, model_id |-> NoProduct, mode |-> "none",
     images |-> <<>>, sid |-> NoId, field |-> "default",
     stage |-> "sent", reply |-> ""]

\* mount of App: initial state and the greeting effect
MountApp ==
    /\ client = "app"
    /\ nLoads < MaxLoads
    /\ nLoads' = nLoads + 1
    /\ open' = TRUE
    /\ mode' = PRE_PURCHASE
    /\ messages' = <<AppGreeting(PRE_PURCHASE)>>
    /\ origin' = <<"greeting">>
    /\ inputMessage' = ""
    /\ isLoading' = FALSE
    /\ showImageUpload' = FALSE /\ roomAnalysis' = "null" /\ suggestions' = <<>>
    /\ chatReqs' = {} /\ roomReqs' = {}
    /\ lastTry' = NoTry
    /\ UNCHANGED <<envVars, crashed, modelId, loading, error, productData,
                   sessionId, isSending, isLoadingHistory, selectedImages,
                   imagePreviews, uploadError, previewJobs, histReqs, prodReqs,
                   selectedImage, nSends, nSelects, resolved, histDone,
                   histGhost>>
    /\ modeReqs' = {} /\ resetReqs' = {}
    /\ chosen' = PRE_PURCHASE
    /\ UNCHANGED <<nModes, lastProd, lastReject, asm, docIndex, auth, agentMode>>

\* the text input's onChange (the input is disabled while loading)
AppType(t) ==
    /\ AppUp /\ ~isLoading
    /\ t # inputMessage
    /\ inputMessage' = t
    /\ UNCHANGED <<envVars, open, crashed, modelId, loading, error, productData,
                   sessionId, messages, origin, isSending, isLoadingHistory,
                   mode, selectedImages, imagePreviews, uploadError,
                   previewJobs, netVars, otherVars, ghostVars>>
    /\ UNCHANGED moreVars

\* App.handleSendMessage up to its await; Enter and the Send button work
\* only while the input is enabled
AppHandleSendMessage ==
    /\ AppUp /\ ~isLoading
    /\ lastTry' = [pressed |-> TRUE, busy |-> chatReqs # {},
                   empty |-> Trim(inputMessage) = ""]
    /\ IF Trim(inputMessage) = ""
       THEN UNCHANGED <<messages, origin, inputMessage, isLoading, chatReqs,
                        nSends>>
       ELSE /\ nSends < MaxSends
            /\ nSends' = nSends + 1
            /\ messages' = Append(messages, Bubble(inputMessage, TRUE))
            /\ origin' = Append(origin, "user")
            /\ inputMessage' = ""
            /\ isLoading' = TRUE
            /\ chatReqs' = chatReqs \cup {AppChatRequest(nSends + 1, inputMessage)}
    /\ UNCHANGED <<envVars, open, crashed, modelId, loading, error, productData,
                   sessionId, isSending, isLoadingHistory, mode, selectedImages,
                   imagePreviews, uploadError, previewJobs, histReqs, prodReqs,
                   selectedImage, showImageUpload, roomAnalysis, suggestions,
                   roomReqs, nLoads, nSelects, resolved, histDone, histGhost>>
    /\ UNCHANGED moreVars

\* App.handleSendMessage after its await
AppChatSettles(r) ==
    /\ r \in chatReqs /\ r.stage # "sent"
    /\ AppUp
    /\ chatReqs' = chatReqs \ {r}
    /\ messages' = Append(messages,
                          Bubble(IF r.stage = "ok" THEN r.reply ELSE AppApology,
                                 FALSE))
    /\ origin' = Append(origin, IF r.stage = "ok" THEN "reply" ELSE "failure")
    /\ isLoading' = FALSE
    /\ UNCHANGED <<envVars, open, crashed, modelId, loading, error, productData,
                   sessionId, inputMessage, isSending, isLoadingHistory, mode,
                   selectedImages, imagePreviews, uploadError, previewJobs,
                   histReqs, prodReqs, selectedImage, showImageUpload,
                   roomAnalysis, suggestions, roomReqs, ghostVars>>
    /\ UNCHANGED moreVars

\* the camera button (disabled while loading) toggles the upload overlay
AppToggleImageUpload ==
    /\ AppUp /\ ~isLoading
    /\ showImageUpload' = ~showImageUpload
    /\ UNCHANGED <<envVars, pageVars, netVars, isLoading, selectedImage,
                   roomAnalysis, suggestions, roomReqs, ghostVars>>
    /\ UNCHANGED moreVars

\* the overlay's Cancel button
AppCancelImageUpload ==
    /\ AppUp /\ showImageUpload
    /\ showImageUpload' = FALSE
    /\ UNCHANGED <<envVars, pageVars, netVars, isLoading, selectedImage,
                   roomAnalysis, suggestions, roomReqs, ghostVars>>
    /\ UNCHANGED moreVars

\* ImageUpload.processFile: the file goes on to onImageSelect
ProcessFileAccepts(f) == IsImageType(f) /\ FileSize(f) <= MaxRoomBytes

\* ImageUpload: a file arrives by the picker (handleFileChange; click and
\* input honour disabled) or by drag and drop (handleDrop, which does not),
\* then processFile and App.handleImageUpload up to its await
AppImageChosen(f, dropped) ==
    /\ AppUp /\ showImageUpload
    /\ dropped \/ ~isLoading
    /\ nSelects < MaxFileSelects
    /\ nSelects' = nSelects + 1
    /\ IF ProcessFileAccepts(f)
       THEN /\ isLoading' = TRUE
            /\ roomReqs' = roomReqs \cup {[id |-> nSelects + 1, file |-> f,
                                           stage |-> "sent"]}
       ELSE UNCHANGED <<isLoading, roomReqs>>
    /\ UNCHANGED <<envVars, pageVars, netVars, selectedImage, showImageUpload,
                   roomAnalysis, suggestions, nLoads, nSends, resolved, lastTry,
                   histDone, histGhost>>
    /\ UNCHANGED moreVars

\* POST /analyze-room answers
ServerRoom(r, ok) ==
    /\ r \in roomReqs /\ r.stage = "sent"
    /\ roomReqs' = (roomReqs \ {r}) \cup
                   {[r EXCEPT !.stage = IF ok THEN "ok" ELSE "fail"]}
    /\ UNCHANGED <<envVars, pageVars, netVars, isLoading, selectedImage,
                   showImageUpload, roomAnalysis, suggestions, ghostVars>>
    /\ UNCHANGED moreVars

\* App.handleImageUpload after its await
AppRoomSettles(r) ==
    /\ r \in roomReqs /\ r.stage # "sent"
    /\ AppUp
    /\ roomReqs' = roomReqs \ {r}
    /\ IF r.stage = "ok"
       THEN /\ roomAnalysis' = "analysis"
            /\ messages' = messages \o <<Bubble("Analyzing your room...", TRUE),
                                         Bubble("Room Analysis", FALSE)>>
            /\ origin' = origin \o <<"room", "room">>
            /\ showImageUpload' = FALSE
       ELSE /\ messages' = Append(messages,
                   Bubble("Failed to analyze image. Please ensure the image is clear and try again.",
                          FALSE))
            /\ origin' = Append(origin, "failure")
            /\ UNCHANGED <<roomAnalysis, showImageUpload>>
    /\ isLoading' = FALSE
    /\ UNCHANGED <<envVars, open, crashed, modelId, loading, error, productData,
                   sessionId, inputMessage, isSending, isLoadingHistory, mode,
                   selectedImages, imagePreviews, uploadError, previewJobs,
                   netVars, selectedImage, suggestions, ghostVars>>
    /\ UNCHANGED moreVars

\* switchMode(newMode) up to its await: a press on a mode button (the
\* handler does not compare newMode with the current mode)
AppSwitchMode(newMode) ==
    /\ AppUp
    /\ nModes < MaxModes
    /\ nModes' = nModes + 1
    /\ chosen' = newMode
    /\ modeReqs' = modeReqs \cup {SwitchMode(nModes + 1, newMode)}
    /\ UNCHANGED <<envVars, pageVars, netVars, otherVars, ghostVars,
                   lastProd, lastReject, backVars, agentMode>>

\* mutant: the state is set whatever the outcome of the request
AppModeSettlesAnyway(r) ==
    /\ r \in modeReqs /\ r.stage # "sent"
    /\ AppUp
    /\ modeReqs' = modeReqs \ {r}
    /\ mode' = r.mode
    /\ messages' = IF r.mode # mode THEN <<AppGreeting(r.mode)>> ELSE <<>>
    /\ origin' = IF r.mode # mode THEN <<"greeting">> ELSE <<>>
    /\ roomAnalysis' = "null"
    /\ suggestions' = <<>>
    /\ UNCHANGED <<envVars, open, crashed, modelId, loading, error, productData,
                   sessionId, inputMessage, isSending, isLoadingHistory,
                   selectedImages, imagePreviews, uploadError, previewJobs,
                   netVars, isLoading, selectedImage, showImageUpload, roomReqs,
                   ghostVars, chosen, nModes, lastProd, lastReject, backVars, agentMode>>
\* switchMode after its await: on success the mode is set and the
\* conversation, the room analysis and the suggestions are cleared; the
\* greeting effect ([mode]) runs again when the mode has changed. On failure
\* the error is logged and nothing is set.
AppModeSettles(r) ==
    /\ r \in modeReqs /\ r.stage # "sent"
    /\ AppUp
    /\ modeReqs' = modeReqs \ {r}
    /\ IF r.stage = "ok"
       THEN /\ mode' = r.mode
            /\ messages' = IF r.mode # mode THEN <<AppGreeting(r.mode)>> ELSE <<>>
            /\ origin' = IF r.mode # mode THEN <<"greeting">> ELSE <<>>
            /\ roomAnalysis' = "null"
            /\ suggestions' = <<>>
       ELSE UNCHANGED <<mode, messages, origin, roomAnalysis, suggestions>>
    /\ UNCHANGED <<envVars, open, crashed, modelId, loading, error, productData,
                   sessionId, inputMessage, isSending, isLoadingHistory,
                   selectedImages, imagePreviews, uploadError, previewJobs,
                   netVars, isLoading, selectedImage, showImageUpload, roomReqs,
                   ghostVars, chosen, nModes, lastProd, lastReject, backVars, agentMode>>

\* resetConversation up to its await: the reset button (disabled while a
\* request is awaited)
AppResetConversation ==
    /\ AppUp /\ ~isLoading
    /\ resetReqs' = resetReqs \cup {[stage |-> "sent"]}
    /\ UNCHANGED <<envVars, pageVars, netVars, otherVars, ghostVars, modeVars,
                   lastProd, lastReject, asm, docIndex, auth, agentMode>>
\* POST /reset is answered
ServerReset(r, ok) ==
    /\ r \in resetReqs /\ r.stage = "sent"
    /\ resetReqs' = (resetReqs \ {r}) \cup
          {[r EXCEPT !.stage = IF ok THEN "ok" ELSE "fail"]}
    /\ UNCHANGED <<envVars, pageVars, netVars, otherVars, ghostVars, modeVars,
                   lastProd, lastReject, asm, docIndex, auth, agentMode>>
\* resetConversation after its await: on success the conversation, the room
\* analysis and the suggestions are cleared; on failure the error is logged
AppResetSettles(r) ==
    /\ r \in resetReqs /\ r.stage # "sent"
    /\ AppUp
    /\ resetReqs' = resetReqs \ {r}
    /\ IF r.stage = "ok"
       THEN /\ messages' = <<>>
            /\ origin' = <<>>
            /\ roomAnalysis' = "null"
            /\ suggestions' = <<>>
       ELSE UNCHANGED <<messages, origin, roomAnalysis, suggestions>>
    /\ UNCHANGED <<envVars, open, crashed, modelId, loading, error, productData,
                   sessionId, inputMessage, isSending, isLoadingHistory, mode,
                   selectedImages, imagePreviews, uploadError, previewJobs,
                   netVars, isLoading, selectedImage, showImageUpload, roomReqs,
                   ghostVars, modeVars, lastProd, lastReject, asm, docIndex,
                   auth, agentMode>>

\* selections offered to the chat specification: one valid image
ChatPicks == {<<"a.png">>}

\* the chat of the product page: loads, product fetch, history, typing, sends
NextChat ==
    \/ \E p \in Products : LoadPage(p)
    \/ \E r \in prodReqs, o \in {"ok", "notfound", "unreachable"} :
          ServerProduct(r, o)
    \/ \E r \in prodReqs : ProductSettles(r)
    \/ TryAgain
    \/ \E h \in histReqs, o \in {"ok", "nonok", "unreachable"} :
          ServerHistory(h, o)
    \/ \E h \in histReqs : HistorySettles(h)
    \/ \E t \in Texts(nSends) : TypeMessage(t)
    \/ HandleSendMessage
    \/ \E r \in chatReqs : ChatSettles(r)
    \/ \E files \in ChatPicks : nSelects < MaxSelects /\ HandleImageSelect(files)
    \/ \E j \in previewJobs : PreviewsReady(j)

\* the backend, whichever front end is talking to it
NextServer ==
    \E r \in chatReqs, ok \in BOOLEAN, reply \in ReplyTexts,
       readsSessionId \in BOOLEAN :
        ServerChat(r, ok, reply, readsSessionId)

\* the chat widget
NextWidget ==
    \/ \E p \in Products : MountWidget(p)
    \/ \E t \in Texts(nSends) : WidgetType(t)
    \/ \E f \in FileNames : nSelects < MaxSelects /\ WidgetSelectImage(f)
    \/ WidgetSubmit
    \/ \E r \in chatReqs : WidgetChatSettles(r)

\* the legacy App
NextApp ==
    \/ MountApp
    \/ \E t \in Texts(nSends) : AppType(t)
    \/ AppHandleSendMessage
    \/ \E r \in chatReqs : AppChatSettles(r)
    \/ AppToggleImageUpload
    \/ AppCancelImageUpload
    \/ \E f \in FileNames, dropped \in BOOLEAN :
          nSelects < MaxSelects /\ AppImageChosen(f, dropped)
    \/ \E r \in roomReqs, ok \in BOOLEAN : ServerRoom(r, ok)
    \/ \E r \in roomReqs : AppRoomSettles(r)

\* the attachments of the product page
NextAttach ==
    \/ \E files \in FilePicks : HandleImageSelect(files)
    \/ \E j \in previewJobs : PreviewsReady(j)
    \/ \E index \in 1..(MAX_IMAGES + MaxPick) : HandleRemoveImage(index)

Spec == Init /\ [][NextChat \/ NextServer \/ NextWidget \/ NextApp]_vars

\* the three front ends' conversations without history and attachments
NextTalk ==
    \/ \E p \in Products : LoadPage(p)
    \/ \E r \in prodReqs : ServerProduct(r, "ok")
    \/ \E r \in prodReqs : ProductSettles(r)
    \/ \E t \in Texts(nSends) : TypeMessage(t)
    \/ HandleSendMessage
    \/ \E r \in chatReqs : ChatSettles(r)
    \/ \E p \in Products : MountWidget(p)
    \/ \E t \in Texts(nSends) : WidgetType(t)
    \/ WidgetSubmit
    \/ \E r \in chatReqs : WidgetChatSettles(r)
    \/ MountApp
    \/ \E t \in Texts(nSends) : AppType(t)
    \/ AppHandleSendMessage
    \/ \E r \in chatReqs : AppChatSettles(r)

\* the mode buttons of the three front ends and POST /mode
NextMode ==
    \/ \E m \in Modes : HandleModeSwitch(m)
    \/ \E r \in modeReqs : ModeSettles(r)
    \/ \E m \in Modes : WidgetSetMode(m)
    \/ \E m \in Modes : AppSwitchMode(m)
    \/ \E r \in modeReqs : AppModeSettles(r)
    \/ \E r \in modeReqs, ok \in BOOLEAN : ServerMode(r, ok)

SpecMode == Init /\ [][NextTalk \/ NextServer \/ NextMode]_vars

\* the three front ends' sends and room analyses with files attached
NextFiles ==
    \/ \E p \in Products : LoadPage(p)
    \/ \E r \in prodReqs : ServerProduct(r, "ok")
    \/ \E r \in prodReqs : ProductSettles(r)
    \/ HandleSendMessage
    \/ \E r \in chatReqs : ChatSettles(r)
    \/ \E p \in Products : MountWidget(p)
    \/ \E f \in FileNames : WidgetSelectImage(f)
    \/ WidgetSubmit
    \/ \E r \in chatReqs : WidgetChatSettles(r)
    \/ MountApp
    \/ AppToggleImageUpload
    \/ \E f \in FileNames, dropped \in BOOLEAN : AppImageChosen(f, dropped)
    \/ \E r \in roomReqs, ok \in BOOLEAN : ServerRoom(r, ok)
    \/ \E r \in roomReqs : AppRoomSettles(r)

\* the continuation of an awaited fetch runs once the fetch has settled (the
\* event loop delivers every settled promise); nothing obliges the backend
\* to answer or the user to act
Fairness ==
    /\ WF_vars(\E r \in chatReqs : ChatSettles(r))
    /\ WF_vars(\E r \in chatReqs : WidgetChatSettles(r))
    /\ WF_vars(\E r \in chatReqs : AppChatSettles(r))
    /\ WF_vars(\E r \in prodReqs : ProductSettles(r))

SpecLive == Init /\ [][NextTalk \/ NextServer]_vars /\ Fairness

\* the catalog lookup of the product page
NextCatalog ==
    \/ \E p \in Products : LoadPage(p)
    \/ \E r \in prodReqs, o \in {"ok", "notfound", "error", "unreachable"} :
          ServerProduct(r, o)
    \/ \E r \in prodReqs : ProductSettles(r)
    \/ TryAgain

SpecCatalog == Init /\ [][NextCatalog]_vars

SpecAttach == Init /\ [][NextFiles \/ NextAttach \/ NextServer]_vars

\* ------------------------------------ backend: catalog, retrieval, prompt
\* The backend sources (main.py, retrieval.py, indexing.py, the agent) are
\* not in the repository; this part follows the specification's sections
\* 4.3 to 4.5 and the chat endpoint shown in backend/PINECONE_USAGE.md.
MaxChunks == 4       \* chunks the document index can hold
TopK == 3            \* top_k=3 of the chat endpoint

UnknownModel == "UNKNOWN-X"
ModelIds == Products \cup {UnknownModel}
HazardCategories == {"high voltage", "gas connection", "internal electronics"}

\* known-issue entries of the catalog: code, meaning, fix, category
KnownIssues(p) ==
    IF p = "A"
    THEN {[code |-> "E01", meaning |-> "door ajar", fix |-> "check door seal",
           category |-> "none"]}
    ELSE {[code |-> "E05", meaning |-> "control board fault",
           fix |-> "replace the control board",
           category |-> "internal electronics"]}
\* getModel(modelId) -> {product, model} | NotFound
GetModelById(id) ==
    IF id \in Products THEN [model |-> id, issues |-> KnownIssues(id)]
    ELSE NoRecord

\* what the user can ask, and the turns a session can already hold
AsmTexts == {"what's the warranty", "E01 error on my fridge",
             "E05 keeps showing",
             "I want to open the control board and rewire it myself",
             "how do I move the gas connection"}
Histories ==
    {<<>>,
     <<[role |-> "user", content |-> "what's the warranty"],
       [role |-> "assistant", content |-> "answer"]>>,
     <<[role |-> "user", content |-> "how do I move the gas connection"],
       [role |-> "assistant", content |-> "answer"],
       [role |-> "user", content |-> "E01 error on my fridge"],
       [role |-> "assistant", content |-> "answer"]>>}

\* keyword classifier: the hazard categories a text falls in
Hazards(text) ==
    CASE text = "I want to open the control board and rewire it myself"
             -> {"high voltage", "internal electronics"}
      [] text = "how do I move the gas connection" -> {"gas connection"}
      [] OTHER -> {}
\* the error code a text mentions, if any
CodeIn(text) ==
    CASE text = "E01 error on my fridge" -> "E01"
      [] text = "E05 keeps showing" -> "E05"
      [] OTHER -> "none"
\* the known-issue entries of the record the message matches
MatchedIssues(rec, text) == {i \in rec.issues : i.code = CodeIn(text)}
\* the hazard categories detected for a turn: those of the user message and
\* those of the matched known-issue entries
Detected(rec, text) ==
    Hazards(text) \cup
    ({i.category : i \in MatchedIssues(rec, text)} \cap HazardCategories)

\* ---- document index
Sections == {"setup", "warranty", "errors", "safety"}
\* Pinecone namespace `product_{model_id}`
Namespace(id) == <<"product_", id>>
\* the section a query is about
Topic(query) ==
    CASE query = "what's the warranty" -> "warranty"
      [] CodeIn(query) # "none" -> "errors"
      [] Hazards(query) # {} -> "safety"
      [] OTHER -> "setup"
\* relevance of a section to a query, in tenths (0..10)
Relevance(sec, query) ==
    (CASE sec = "setup" -> 1 [] sec = "warranty" -> 2
       [] sec = "errors" -> 3 [] OTHER -> 4)
    + (IF sec = Topic(query) THEN 5 ELSE 0)

\* indexing.py: the chunks of a product's manual go to that product's
\* namespace; origin records whose material a chunk is
IndexManual(p, sec) ==
    /\ Cardinality(docIndex) < MaxChunks
    /\ docIndex' = docIndex \cup
                     {[ns |-> Namespace(p), origin |-> p, section |-> sec]}
    /\ UNCHANGED <<envVars, pageVars, netVars, otherVars, ghostVars, modeVars,
                   lastProd, lastReject, asm, auth, resetReqs, agentMode>>

RECURSIVE Ranked(_, _, _)
\* the k most relevant chunks of a set, by descending score
Ranked(chunks, query, k) ==
    IF k = 0 \/ chunks = {} THEN <<>>
    ELSE LET best == CHOOSE c \in chunks : \A d \in chunks :
                        Relevance(d.section, query) <= Relevance(c.section, query)
         IN <<[section |-> best.section, origin |-> best.origin,
               ns |-> best.ns, score |-> Relevance(best.section, query)]>>
            \o Ranked(chunks \ {best}, query, k - 1)
\* mutant: the search is not restricted to a namespace
RetrieveDocumentsAnywhere(product_id, query, top_k) ==
    Ranked(docIndex, query, top_k)
\* retrieval.py: search the namespace of that product, top-k chunks
RetrieveDocuments(product_id, query, top_k) ==
    Ranked({c \in docIndex : c.ns = Namespace(product_id)}, query, top_k)

\* ---- prompt assembly
SafetyDirective == "recommend a certified professional; no do-it-yourself steps"
GroundingDirective == "never state specifications not grounded in record or snippets"
SnippetDirective == "treat the retrieved snippets as the authoritative source"
ModeDirective(m) == IF m = POST_PURCHASE THEN "support the owner" ELSE "advise the shopper"
HistoryWindow == 2   \* prior turns kept in a request
Recent(h) == IF Len(h) <= HistoryWindow THEN h
             ELSE SubSeq(h, Len(h) - HistoryWindow + 1, Len(h))
Range(q) == {q[i] : i \in 1..Len(q)}

\* mutant: non-empty snippets take the place of the assembler's own
\* instructions
DirectivesSnippetsOnly(m, rec, snips, hist, text) ==
    IF snips # <<>> THEN <<SnippetDirective>>
    ELSE (IF m = POST_PURCHASE /\ Detected(rec, text) # {}
          THEN <<SafetyDirective>> ELSE <<>>)
         \o (IF m = PRE_PURCHASE THEN <<GroundingDirective>> ELSE <<>>)
         \o <<ModeDirective(m)>>
\* the ordered directive list: snippets first, then the policy directives,
\* then the generic instruction of the mode
Directives(m, rec, snips, hist, text) ==
    (IF snips # <<>> THEN <<SnippetDirective>> ELSE <<>>)
    \o (IF m = POST_PURCHASE /\ Detected(rec, text) # {}
        THEN <<SafetyDirective>> ELSE <<>>)
    \o (IF m = PRE_PURCHASE THEN <<GroundingDirective>> ELSE <<>>)
    \o <<ModeDirective(m)>>
\* mutant: a turn without a catalog record yields no request
AssembleKnownOnly(m, rec, snips, hist, text) ==
    IF rec = NoRecord THEN NoRequest
    ELSE [directives |-> Directives(m, rec, snips, hist, text),
          grounding |-> rec, knowledge |-> snips,
          history |-> Recent(hist), user |-> text]
\* one provider request from mode, record, history window, snippets, turn
Assemble(m, rec, snips, hist, text) ==
    [directives |-> Directives(m, rec, snips, hist, text),
     grounding |-> rec,
     knowledge |-> snips,
     history |-> Recent(hist),
     user |-> text]

\* ---- POST /chat, step by step
\* a request arrives: model_id, message, mode (or none), the session's turns
ChatArrives(id, text, m, hist) ==
    /\ asm.stage = "idle"
    /\ asm' = [Idle EXCEPT !.stage = "received",
                           !.mode = IF m = "none" THEN agentMode ELSE m,
                           !.model_id = id, !.message = text,
                           !.history = hist]
    /\ UNCHANGED <<envVars, pageVars, netVars, otherVars, ghostVars, modeVars,
                   lastProd, lastReject, docIndex, auth, resetReqs, agentMode>>
\* product_db.get_model_by_id(request.model_id)
CatalogLookup ==
    /\ asm.stage = "received"
    /\ asm' = [asm EXCEPT !.stage = "looked",
                          !.record = GetModelById(asm.model_id)]
    /\ UNCHANGED <<envVars, pageVars, netVars, otherVars, ghostVars, modeVars,
                   lastProd, lastReject, docIndex, auth, resetReqs, agentMode>>
\* retrieve_documents, only for a model the catalog knows; an unavailable
\* service yields no snippets
Retrieve(up) ==
    /\ asm.stage = "looked"
    /\ asm' = [asm EXCEPT !.stage = "retrieved",
                          !.snippets =
                              IF asm.record # NoRecord /\ up
                              THEN RetrieveDocuments(asm.model_id, asm.message, TopK)
                              ELSE <<>>]
    /\ UNCHANGED <<envVars, pageVars, netVars, otherVars, ghostVars, modeVars,
                   lastProd, lastReject, docIndex, auth, resetReqs, agentMode>>
\* agent.generate_response builds the provider request
AssembleRequest ==
    /\ asm.stage = "retrieved"
    /\ asm' = [asm EXCEPT !.stage = "assembled",
                          !.request = Assemble(asm.mode, asm.record, asm.snippets,
                                               asm.history, asm.message)]
    /\ UNCHANGED <<envVars, pageVars, netVars, otherVars, ghostVars, modeVars,
                   lastProd, lastReject, docIndex, auth, resetReqs, agentMode>>
\* the completion returns and the endpoint answers
ChatAnswered ==
    /\ asm.stage = "assembled"
    /\ asm' = Idle
    /\ UNCHANGED <<envVars, pageVars, netVars, otherVars, ghostVars, modeVars,
                   lastProd, lastReject, docIndex, auth, resetReqs, agentMode>>

NextAssemble ==
    \/ \E p \in Products, sec \in Sections : IndexManual(p, sec)
    \/ \E id \in ModelIds, text \in AsmTexts, m \in Modes \cup {"none"},
          hist \in Histories : ChatArrives(id, text, m, hist)
    \/ CatalogLookup
    \/ \E up \in BOOLEAN : Retrieve(up)
    \/ AssembleRequest
    \/ ChatAnswered

InitAssemble == Init /\ client = "page" /\ storage = "ok"
SpecAssemble == InitAssemble /\ [][NextAssemble]_vars

\* the legacy App's conversation with its mode buttons, its reset button
\* and its room analysis
NextLegacy ==
    \/ MountApp
    \/ \E t \in Texts(nSends) : AppType(t)
    \/ nSends < MaxLegacySends /\ AppHandleSendMessage
    \/ \E r \in chatReqs : AppChatSettles(r)
    \/ AppToggleImageUpload
    \/ \E f \in {"a.png"} : AppImageChosen(f, FALSE)
    \/ \E r \in roomReqs : ServerRoom(r, TRUE)
    \/ \E r \in roomReqs : AppRoomSettles(r)
    \/ \E r \in chatReqs : ServerChat(r, TRUE, "answer", FALSE)
    \/ \E m \in Modes : AppSwitchMode(m)
    \/ \E r \in modeReqs, ok \in BOOLEAN : ServerMode(r, ok)
    \/ \E r \in modeReqs : AppModeSettles(r)
    \/ AppResetConversation
    \/ \E r \in resetReqs, ok \in BOOLEAN : ServerReset(r, ok)
    \/ \E r \in resetReqs : AppResetSettles(r)

InitLegacy == Init /\ client = "app"
SpecLegacy == InitLegacy /\ [][NextLegacy]_vars

\* ------------------------------------------- product change while mounted
\* /product/:modelId is one Route element: when the location changes from
\* one product to another (history traversal), the page stays mounted and
\* only the effects with [modelId] run again: fetchProductData and the
\* session effect. No state is reset and no request is aborted.
ChangeProduct(p) ==
    /\ client = "page" /\ open /\ ~crashed /\ storage = "ok"
    /\ p # modelId
    /\ ls[PageKey(p)] = NoId => nextId < MaxIds
    /\ modelId' = p
    /\ loading' = TRUE
    /\ prodReqs' = prodReqs \cup {[model_id |-> p, stage |-> "sent"]}
    /\ LET key == PageKey(p)
           sid == ResolvedId(key)
       IN /\ ls' = IF ls[key] = NoId THEN SetItem(key, sid) ELSE ls
          /\ nextId' = IF ls[key] = NoId THEN nextId + 1 ELSE nextId
          /\ sessionId' = sid
          /\ resolved' = [resolved EXCEPT ![p] = sid]
          /\ histReqs' = histReqs \cup
                {[sid |-> sid, stage |-> "sent", messages |-> <<>>, ghost |-> <<>>]}
    /\ isLoadingHistory' = TRUE
    /\ histDone' = "pending" /\ histGhost' = <<>>
    /\ UNCHANGED <<client, storage, store, appended, open, crashed, error,
                   productData, messages, origin, inputMessage, isSending, mode,
                   selectedImages, imagePreviews, uploadError, previewJobs,
                   chatReqs, otherVars, nLoads, nSends, nSelects, lastTry,
                   moreVars>>

\* ProductChatWidget rendered with another product: the session effect runs
\* again (deps [mounted, product.id]); the welcome effect only fills an
\* empty list
WidgetProductChanges(p) ==
    /\ WidgetUp /\ storage = "ok"
    /\ p # modelId
    /\ ls[WidgetKey(p)] = NoId => nextId < MaxIds
    /\ modelId' = p
    /\ LET key == WidgetKey(p)
           sid == GetSessionId(key)
       IN /\ ls' = IF ls[key] = NoId THEN SetItem(key, sid) ELSE ls
          /\ nextId' = IF ls[key] = NoId THEN nextId + 1 ELSE nextId
          /\ sessionId' = sid
          /\ resolved' = [resolved EXCEPT ![p] = sid]
    /\ messages' = IF messages = <<>> THEN <<WidgetWelcome>> ELSE messages
    /\ UNCHANGED <<client, storage, store, appended, open, crashed, loading,
                   error, productData, origin, inputMessage, isSending,
                   isLoadingHistory, mode, selectedImages, imagePreviews,
                   uploadError, previewJobs, netVars, otherVars, nLoads, nSends,
                   nSelects, lastTry, histDone, histGhost, moreVars>>

NextRoute ==
    \/ \E p \in Products : ChangeProduct(p)
    \/ \E p \in Products : WidgetProductChanges(p)

SpecRoute == Init /\ [][NextTalk \/ NextServer \/ NextRoute]_vars

\* --------------------------------------------- auth callback (part_005)
\* values a query parameter can have: absent, present and empty, or a text
CodeValues == {NoParam, "", "c1"}
ErrorValues == {NoParam, "", "access_denied"}
ErrorCodeValues == {NoParam, "", "otp_expired"}
DescriptionValues == {NoParam, "", "Email link is invalid"}
\* what exchangeCodeForSession can do: succeed, return an error with its
\* message, or reject (as can createServerSupabaseClient)
ExchangeOutcomes == {"ok", "invalid grant", "throws"}

\* mutant: a parameter counts as soon as it is present
TruthyPresent(x) == x # NoParam
\* JavaScript truthiness of a string-or-null
Truthy(x) == x # NoParam /\ x # ""
\* encodeURIComponent on the messages the handler can pass
EncodeURIComponent(text) ==
    CASE text = "Authentication failed" -> "Authentication%20failed"
      [] text = "Invalid authentication request" -> "Invalid%20authentication%20request"
      [] text = "Email link is invalid" -> "Email%20link%20is%20invalid"
      [] text = "invalid grant" -> "invalid%20grant"
      [] OTHER -> text
\* NextResponse.redirect(`${origin}/login?error=${encodeURIComponent(m)}`)
LoginRedirect(message) ==
    [kind |-> "redirect", to |-> "/login", error |-> EncodeURIComponent(message)]
\* NextResponse.redirect(`${origin}/`)
HomeRedirect == [kind |-> "redirect", to |-> "/", error |-> NoParam]
\* error_description || error || 'Authentication failed'
ErrorMessage(description, errorParam) ==
    IF Truthy(description) THEN description
    ELSE IF Truthy(errorParam) THEN errorParam
    ELSE "Authentication failed"

\* GET up to its first return or its await
AuthGet(code, errorParam, error_code, error_description) ==
    /\ auth.stage = "idle"
    /\ auth' = [NoCallback EXCEPT
                  !.code = code, !.error = errorParam, !.error_code = error_code,
                  !.error_description = error_description,
                  !.stage = IF Truthy(errorParam) \/ Truthy(error_code) THEN "answered"
                            ELSE IF Truthy(code) THEN "exchanging"
                            ELSE "answered",
                  !.response =
                      IF Truthy(errorParam) \/ Truthy(error_code)
                      THEN LoginRedirect(ErrorMessage(error_description, errorParam))
                      ELSE IF Truthy(code) THEN NoResponse
                      ELSE LoginRedirect("Invalid authentication request")]
    /\ UNCHANGED <<envVars, pageVars, netVars, otherVars, ghostVars, modeVars,
                   lastProd, lastReject, asm, docIndex, resetReqs, agentMode>>
\* the try block: createServerSupabaseClient, exchangeCodeForSession
AuthExchange(outcome) ==
    /\ auth.stage = "exchanging"
    /\ auth' = [auth EXCEPT
                  !.stage = "answered",
                  !.exchange = outcome,
                  !.response =
                      CASE outcome = "ok" -> HomeRedirect
                        [] outcome = "throws" -> LoginRedirect("Authentication failed")
                        [] OTHER -> LoginRedirect(outcome)]
    /\ UNCHANGED <<envVars, pageVars, netVars, otherVars, ghostVars, modeVars,
                   lastProd, lastReject, asm, docIndex, resetReqs, agentMode>>
\* the response is sent
AuthAnswered ==
    /\ auth.stage = "answered"
    /\ auth' = NoCallback
    /\ UNCHANGED <<envVars, pageVars, netVars, otherVars, ghostVars, modeVars,
                   lastProd, lastReject, asm, docIndex, resetReqs, agentMode>>

NextAuth ==
    \/ \E code \in CodeValues, errorParam \in ErrorValues,
          error_code \in ErrorCodeValues, description \in DescriptionValues :
          AuthGet(code, errorParam, error_code, description)
    \/ \E outcome \in ExchangeOutcomes : AuthExchange(outcome)
    \/ AuthAnswered

SpecAuth == InitAssemble /\ [][NextAuth]_vars

\* ------------------------------------ the request builders, called directly
\* api.sendMessage(message, modelId, mode, imageFiles, sessionId) with any
\* arguments, the missing session identifier (null) included
CallSendMessage(message, p, m, imageFiles, sid) ==
    /\ client = "page"
    /\ Cardinality(chatReqs) < MaxCalls
    /\ chatReqs' = chatReqs \cup
          {SendMessage(Cardinality(chatReqs) + 1, message, p, m, imageFiles, sid)}
    /\ UNCHANGED <<envVars, pageVars, histReqs, prodReqs, otherVars, ghostVars,
                   moreVars>>
\* sendChatMessage({productId, message, sessionId, mode, images})
CallSendChatMessage(message, p, m, images, sid) ==
    /\ client = "widget"
    /\ Cardinality(chatReqs) < MaxCalls
    /\ chatReqs' = chatReqs \cup
          {SendChatMessage(Cardinality(chatReqs) + 1, p, message, sid, m, images)}
    /\ UNCHANGED <<envVars, pageVars, histReqs, prodReqs, otherVars, ghostVars,
                   moreVars>>

CallFiles == {<<>>, <<"a.png">>, <<"a.png", "b.png">>}
NextCall ==
    \E message \in {"", "q1"}, p \in Products, m \in Modes,
       files \in CallFiles, sid \in {NoId} \cup Ids :
        \/ CallSendMessage(message, p, m, files, sid)
        \/ CallSendChatMessage(message, p, m, files, sid)

InitCall == Init /\ client \in {"page", "widget"} /\ storage = "ok"
SpecCall == InitCall /\ [][NextCall]_vars

\* ================================================================ claims
IsPrefix(a, b) == Len(a) <= Len(b) /\ SubSeq(b, 1, Len(a)) = a
\* what a list of turns shows: role and text of each
Shown(m) == [i \in 1..Len(m) |-> [role |-> m[i].role, content |-> m[i].content]]
PageUp == client = "page" /\ open /\ ~crashed
\* the localStorage key the tab's front end uses for product p
SessionKey(p) == IF client = "widget" THEN WidgetKey(p) ELSE PageKey(p)

\* C1 (as claimed): within one page view a displayed turn is never removed
\* and never changes position: every step other than a page load extends
\* the list of messages.
C1_TurnsNeverRemoved ==
    [][(client = "page" /\ nLoads' = nLoads)
         => IsPrefix(Shown(messages), Shown(messages'))]_vars

\* C2: after a reload, a history load that the backend answered puts on the
\* page exactly the turns appended for the product's sends, in send order
\* (as long as the page view has added no turn of its own).
C2_HistoryAfterReload ==
    (PageUp /\ histDone = "ok" /\ \A i \in 1..Len(origin) : origin[i] = "history")
        => messages = histGhost
C2_Witness ==
    /\ PageUp /\ histDone = "ok" /\ nLoads = 2
    /\ Len(messages) = 4 /\ messages = histGhost
    /\ messages[1].content = "q1" /\ messages[3].content = "q2"

C4_OneChatInFlight == Cardinality(chatReqs) <= 1

\* C5: a resolution for a product that was resolved before returns the same
\* identifier again (the storage is changed by nothing else).
C5_ResolutionIdempotent ==
    [][\A p \in Products :
         (client \in {"page", "widget"} /\ storage = "ok" /\ nLoads' = nLoads + 1
            /\ modelId' = p /\ resolved[p] # NoId)
           => sessionId' = resolved[p]]_vars
C5_Witness ==
    /\ open /\ ~crashed /\ nLoads = 2 /\ \E p \in Products : resolved[p] = sessionId
    /\ nextId = 1

\* C6: a resolution that finds nothing stored for the product returns an
\* identifier and leaves it stored under that product's key.
C6_GeneratedIdIsStored ==
    [][\A p \in Products :
         (client \in {"page", "widget"} /\ storage = "ok"
            /\ nLoads' = nLoads + 1 /\ modelId' = p /\ ls[SessionKey(p)] = NoId)
           => sessionId' # NoId /\ ls'[SessionKey(p)] = sessionId']_vars
C6_Witness ==
    /\ client \in {"page", "widget"} /\ open /\ ~crashed /\ nLoads = 1
    /\ sessionId # NoId /\ ls[SessionKey(modelId)] = sessionId

\* C7: two different products never hold the same session identifier.
C7_DistinctProductsDistinctIds ==
    \A p, q \in Products :
        (p # q /\ resolved[p] # NoId /\ resolved[q] # NoId)
            => resolved[p] # resolved[q]
C7_Witness ==
    \A p \in Products : resolved[p] # NoId

\* C8 (as claimed): with localStorage failing, the resolution does not crash
\* the page and yields an identifier for the page view.
C8_StorageFailureTolerated ==
    (client \in {"page", "widget"} /\ open /\ storage = "throws")
        => ~crashed /\ sessionId # NoId

\* C9: a history load that finds no history, is answered non-OK or gets no
\* answer takes no turn from the fetch, leaves the conversation and the
\* error state as they were, and clears the history-loading flag.
C9_HistoryLoadNeverFails ==
    [][\A h \in histReqs :
         (client = "page" /\ nLoads' = nLoads /\ h \notin histReqs'
            /\ (h.stage \in {"nonok", "unreachable"}
                \/ (h.stage = "ok" /\ h.messages = <<>>)))
           => /\ messages' = messages
              /\ ~isLoadingHistory'
              /\ error' = error /\ crashed' = crashed /\ open']_vars
C9_Witness ==
    /\ PageUp /\ histDone \in {"nonok", "unreachable"} /\ ~isLoadingHistory
    /\ Len(messages) > 0 /\ error = "null"

\* C10 (as claimed): the turn recorded for a failed submission shows the
\* apology and differs from every turn a real answer can produce.
C10_FailureTurnDistinguishable ==
    \A i \in 1..Len(messages) :
        (client = "page" /\ i <= Len(origin) /\ origin[i] = "failure")
            => /\ messages[i].content = PageApology
               /\ \A t \in ReplyTexts : messages[i] # AssistantTurn(t)

\* the mode a /chat request is answered in: its mode field, or, for a
\* request without one, the mode the backend holds
Carried(r) == IF r.mode = "none" THEN agentMode ELSE r.mode

\* C11 (as claimed): a chat submission issued when no mode request is
\* outstanding carries the mode the user selected last, PRE_PURCHASE when
\* none was ever selected.
C11_SubmissionsCarryChosenMode ==
    [][\A r \in chatReqs' :
          (r.stage = "sent" /\ r \notin chatReqs /\ modeReqs = {})
             => Carried(r) = chosen]_vars

\* C12 (as claimed): a step of a mode switch (the press, the backend's
\* answer, the handler's continuation) in a conversation that holds a user
\* turn leaves every turn of the conversation in place and unchanged.
C12_ModeSwitchKeepsTurns ==
    [][(nLoads' = nLoads /\ modeVars' # modeVars
          /\ \E i \in 1..Len(origin) : origin[i] = "user")
         => IsPrefix(messages, messages')]_vars

C14_RejectionReasonStays ==
    (PageUp /\ previewJobs = {} /\ lastReject # "null")
        => uploadError = lastReject

\* C15: every /chat request issued has a non-empty trimmed message or at
\* least one image; a press of Send with neither changes nothing; a press
\* with text or an image (an image alone included), while nothing is in
\* flight, issues a request.
C15_SendGuard ==
    /\ [][\A r \in chatReqs' :
            (r.stage = "sent" /\ r \notin chatReqs)
               => Trim(r.message) # "" \/ r.images # <<>>]_vars
    /\ [][(lastTry' # lastTry /\ lastTry'.pressed /\ lastTry'.empty)
            => /\ chatReqs' = chatReqs /\ messages' = messages
               /\ inputMessage' = inputMessage
               /\ selectedImages' = selectedImages
               /\ imagePreviews' = imagePreviews
               /\ selectedImage' = selectedImage
               /\ uploadError' = uploadError
               /\ isSending' = isSending /\ isLoading' = isLoading
               /\ store' = store]_vars
    /\ [][(lastTry' # lastTry /\ lastTry'.pressed /\ ~lastTry'.empty
            /\ ~lastTry'.busy)
            => \E r \in chatReqs' : r.stage = "sent" /\ r \notin chatReqs]_vars
\* an image-only submission of the page is in flight
C15_Witness ==
    /\ PageUp /\ isSending
    /\ \E r \in chatReqs : r.message = "" /\ r.images # <<>> /\ r.stage = "sent"

\* what the page renders after a product fetch that failed for a passing
\* reason (a non-OK status other than 404)
TransientView ==
    [kind |-> "error", text |-> GetProductError("error"), tryAgain |-> TRUE]

\* C16 (as claimed): after a lookup answered "not found" the page renders
\* something else than it renders after a transient failure, and offers no
\* Try Again.
C16_NotFoundDistinct ==
    (PageUp /\ ~loading /\ lastProd = "notfound")
        => View # TransientView /\ ~View.tryAgain

\* C17 (as claimed): the text the page shows is never the raw message of a
\* failed transport.
C17_NoRawTransportMessage ==
    PageUp => View.text # RawTransportError

\* C18 (as claimed): a send never blocks for ever: whenever a submission is
\* being awaited (isSending in the page, isLoading in the widget), the
\* sending state is eventually cleared, also when the backend never answers.
C18_SendingEventuallyClears ==
    /\ (client = "page" /\ isSending) ~> ~isSending
    /\ (client = "widget" /\ isLoading) ~> ~isLoading

\* C19: retrieval for a product returns only snippets indexed under that
\* product's namespace; no snippet that originates from another product's
\* indexed material is ever returned for it.
C19_RetrievalIsolation ==
    \A i \in 1..Len(asm.snippets) :
        /\ asm.snippets[i].ns = Namespace(asm.model_id)
        /\ asm.snippets[i].origin = asm.model_id
\* snippets were returned for one product while another product's material
\* is in the index
C19_Witness ==
    /\ asm.stage = "retrieved"
    /\ asm.snippets # <<>>
    /\ \E c \in docIndex : c.origin # asm.model_id

\* C20: in POST_PURCHASE mode, a turn whose message or matched known-issue
\* entry falls in a hazard category gets the safety-escalation directive in
\* its assembled request, and whether the directive is present is the same
\* as for that mode, record and message with no history and no snippets.
C20_SafetyDirective ==
    asm.stage = "assembled" =>
        LET has == SafetyDirective \in Range(asm.request.directives)
            bare == Directives(asm.mode, asm.record, <<>>, <<>>, asm.message)
        IN /\ (asm.mode = POST_PURCHASE /\ Detected(asm.record, asm.message) # {})
                  => has
           /\ has <=> SafetyDirective \in Range(bare)
           /\ has => asm.mode = POST_PURCHASE
\* a hazardous post-purchase turn assembled with history and snippets
C20_Witness ==
    /\ asm.stage = "assembled"
    /\ asm.mode = POST_PURCHASE
    /\ Detected(asm.record, asm.message) # {}
    /\ Hazards(asm.message) = {}
    /\ asm.history # <<>>
    /\ asm.snippets # <<>>
    /\ SafetyDirective \in Range(asm.request.directives)

\* C21: a chat turn whose catalog lookup finds no model is not dropped: a
\* request is still assembled, it has instructions, it carries no product
\* record and no snippets, and it contains the user's text unchanged.
C21_UnknownModelStillAssembled ==
    (asm.stage = "assembled" /\ GetModelById(asm.model_id) = NoRecord) =>
        /\ asm.request # NoRequest
        /\ asm.request.directives # <<>>
        /\ asm.request.grounding = NoRecord
        /\ asm.request.knowledge = <<>>
        /\ asm.request.user = asm.message
\* a turn for the unknown model has been assembled while manuals are indexed
C21_Witness ==
    /\ asm.stage = "assembled"
    /\ asm.model_id = UnknownModel
    /\ asm.record = NoRecord
    /\ docIndex # {}
    /\ asm.request.user = asm.message

\* C22 (as claimed): every identifier that was generated and stored, by the
\* page's session effect or by the widget's getSessionId, comes from a
\* generator with at least 122 bits of randomness.
C22_IdentifiersHave122Bits ==
    \A p \in Products :
        /\ ls[PageKey(p)] # NoId => UuidBits >= 122
        /\ ls[WidgetKey(p)] # NoId => GeneratedIdBits >= 122

\* C23: a /chat request of the page (api.sendMessage) carries the session
\* identifier as session_id when images are attached, as conversation_id
\* when none is, and carries no such field without an identifier; a request
\* of the widget (sendChatMessage) always uses conversation_id.
C23_SessionFieldName ==
    \A r \in chatReqs :
        /\ client = "page" =>
              r.field = (CASE r.sid = NoId -> "none"
                           [] r.sid # NoId /\ r.images # <<>> -> "session_id"
                           [] OTHER -> "conversation_id")
        /\ client = "widget" => r.field = "conversation_id"
\* the page has built a request with images and one without an identifier
C23_Witness ==
    /\ client = "page"
    /\ \E r \in chatReqs : r.images # <<>> /\ r.sid # NoId /\ r.field = "session_id"
    /\ \E r \in chatReqs : r.sid = NoId /\ r.field = "none"

\* the content of the user turn handleSendMessage displayed for request r
UserContent(r) == IF r.message # "" THEN r.message ELSE ImageCaption(Len(r.images))
\* a step in which the page's handleSendMessage resumes for request r
SettleStep(r) ==
    /\ client = "page" /\ nLoads' = nLoads
    /\ r \in chatReqs /\ r.stage # "sent" /\ chatReqs' = chatReqs \ {r}
\* C24 (as claimed): when the request of an accepted send settles, exactly
\* one assistant turn (the reply or the apology) is appended, it comes after
\* the user turn of that send, and the sending flag, true since the send,
\* is false afterwards.
C24_OneAssistantTurnPerSend ==
    [][\A r \in chatReqs : SettleStep(r) =>
          /\ messages' = Append(messages, SettledTurn(r))
          /\ \E i \in 1..Len(messages) :
                messages[i].role = "user" /\ messages[i].content = UserContent(r)
          /\ isSending /\ ~isSending']_vars

\* C25 (as claimed): when the product of a mounted page or widget changes,
\* no turn of the conversation shown so far (all created under the former
\* product's session) stays in the conversation, and a reply to a request
\* issued under another session than the current one is not added to it.
C25_NoTurnsAcrossProducts ==
    [][/\ (client \in {"page", "widget"} /\ nLoads' = nLoads
           /\ modelId # NoProduct /\ modelId' # modelId)
          => \A i \in 1..Len(messages') :
                messages'[i] = WidgetWelcome
       /\ \A r \in chatReqs :
             (client \in {"page", "widget"} /\ nLoads' = nLoads
              /\ r.stage # "sent" /\ chatReqs' = chatReqs \ {r}
              /\ r.sid # sessionId)
             => messages' = messages]_vars

\* C26 (as claimed): the product page never holds more than MAX_IMAGES
\* pending image attachments, however selections, preview completions,
\* removals and sends interleave.
C26_AtMostMaxImages ==
    client = "page" => Len(selectedImages) <= MAX_IMAGES

\* C27: in every state of the product page the pending files and their
\* previews have the same length, and preview i is the preview of file i.
C27_PreviewsMatchFiles ==
    client = "page" =>
        /\ Len(imagePreviews) = Len(selectedImages)
        /\ \A i \in 1..Len(selectedImages) :
              imagePreviews[i] = DataUrl(selectedImages[i])
\* two different files and their previews are pending, selected after a
\* send had cleared both lists
C27_Witness ==
    /\ client = "page"
    /\ Len(selectedImages) = 2 /\ Len(imagePreviews) = 2
    /\ selectedImages[1] # selectedImages[2]
    /\ nSends > 0

\* C28 (as claimed): the handler answers every request with a redirect; it
\* redirects to the site root exactly when the request has no error and no
\* error_code parameter, has a code, and the exchange succeeded; otherwise it
\* redirects to /login with a non-empty error parameter.
C28_CallbackRedirects ==
    auth.stage = "answered" =>
        /\ auth.response.kind = "redirect"
        /\ auth.response.to = "/" <=>
              (/\ auth.error = NoParam /\ auth.error_code = NoParam
               /\ auth.code # NoParam /\ auth.exchange = "ok")
        /\ auth.response.to # "/" =>
              /\ auth.response.to = "/login"
              /\ auth.response.error \notin {NoParam, ""}
\* C28 (amended): the same with "has a parameter" read as "has a non-empty
\* parameter": the root exactly when error and error_code are absent or
\* empty, the code is non-empty and the exchange succeeded; a non-empty
\* error or error_code decides even when a code is given.
C28_CallbackRedirectsNonEmpty ==
    auth.stage = "answered" =>
        /\ auth.response.kind = "redirect"
        /\ auth.response.to = "/" <=>
              (/\ auth.error \in {NoParam, ""} /\ auth.error_code \in {NoParam, ""}
               /\ auth.code \notin {NoParam, ""} /\ auth.exchange = "ok")
        /\ auth.response.to # "/" =>
              /\ auth.response.to = "/login"
              /\ auth.response.error \notin {NoParam, ""}
        /\ (auth.error \notin {NoParam, ""} \/ auth.error_code \notin {NoParam, ""})
              => auth.exchange = "none"
\* a request with an error_code, an empty description and a code was sent
\* to /login without an exchange
C28_Witness ==
    /\ auth.stage = "answered"
    /\ auth.error_code = "otp_expired" /\ auth.error = NoParam
    /\ auth.error_description = ""
    /\ auth.code = "c1"
    /\ auth.response = LoginRedirect("Authentication failed")

\* C29: in the product page a press on the tab of another mode makes that
\* mode the local one at once; when its /mode request settles, failed or
\* not, nothing but the request's disappearance changes; and every request
\* submitted afterwards carries the mode pressed last.
C29_PageModeSwitchIsLocal ==
    [][client = "page" =>
          /\ (nModes' = nModes + 1 /\ chosen' # mode) => mode' = chosen'
          /\ \A r \in modeReqs :
                (r.stage # "sent" /\ modeReqs' = modeReqs \ {r} /\ nLoads' = nLoads)
                => UNCHANGED <<envVars, pageVars, netVars, otherVars, chosen,
                               agentMode>>
          /\ \A r \in chatReqs' :
                (r.stage = "sent" /\ r \notin chatReqs) => r.mode = chosen]_vars
\* the /mode request for POST_PURCHASE failed and has settled, the backend
\* is still in PRE_PURCHASE, and a request sent afterwards carries
\* POST_PURCHASE
C29_Witness ==
    /\ client = "page" /\ modeReqs = {}
    /\ mode = POST_PURCHASE /\ agentMode = PRE_PURCHASE
    /\ \E r \in chatReqs : r.stage = "sent" /\ r.mode = POST_PURCHASE

\* the four pieces of state switchMode and resetConversation set
AppConversation == <<mode, messages, roomAnalysis, suggestions>>
\* C30: in the legacy App a press on a mode button or on the reset button
\* changes none of mode, messages, room analysis and suggestions; the
\* settling of a failed /mode or /reset request changes none of them either;
\* and the mode only changes when a /mode request that succeeded settles.
C30_AppChangesOnlyOnSuccess ==
    [][(client = "app" /\ nLoads' = nLoads) =>
          /\ (nModes' # nModes \/ [stage |-> "sent"] \in resetReqs' \ resetReqs)
                => UNCHANGED AppConversation
          /\ \A r \in modeReqs :
                (r.stage = "fail" /\ modeReqs' = modeReqs \ {r})
                => UNCHANGED AppConversation
          /\ \A r \in resetReqs :
                (r.stage = "fail" /\ resetReqs' = resetReqs \ {r})
                => UNCHANGED AppConversation
          /\ mode' # mode =>
                \E r \in modeReqs : r.stage = "ok" /\ modeReqs' = modeReqs \ {r}
                                    /\ mode' = r.mode]_vars
\* the /mode request for POST_PURCHASE failed and has settled: the App is
\* still in PRE_PURCHASE with the user's turn, the analysis and the
\* suggestions it had
C30_Witness ==
    /\ client = "app" /\ modeReqs = {} /\ resetReqs = {}
    /\ chosen = POST_PURCHASE /\ mode = PRE_PURCHASE
    /\ \E i \in 1..Len(origin) : origin[i] = "user"
    /\ roomAnalysis # "null"
====
